---- MODULE Spec2Model ----
(***************************************************************************)
(* ID-Card-Generator (main.py): the card renderer render_card, the batch   *)
(* reader process_csv and the command-line front end cli.                  *)
(*                                                                         *)
(* A Python str is a sequence of one-character strings, so that strip,     *)
(* replace and upper are computed character by character.  A directory     *)
(* name is an atom.  A path is <<directory, file name>>.  The file system  *)
(* is the set dirs of existing directories and the function fs from the    *)
(* paths of the existing files to their content.  The content of a card    *)
(* is the list of drawing operations applied to its canvas, in order.      *)
(***************************************************************************)
EXTENDS Integers, Sequences, FiniteSets, TLC

VARIABLES
    pc,       \* control: "start", "prompt", "open", "reading", "lib", "done", "exit", "error"
    mode,     \* branch of cli taken: "none", "interactive", "single", "csv", "fallthrough"
    args,     \* the argparse namespace
    data,     \* the CardData in the hands of cli / process_csv
    fidx,     \* interactive mode: index in fields of the field being prompted
    stdin,    \* interactive mode: the last line that input() returned
    v,        \* interactive mode: the local v, the stripped line
    csvfile,  \* the CSV file at the path given to process_csv (NoFile: none)
    rowi,     \* process_csv: number of data rows the reader has handed out
    outdir,   \* process_csv: its outdir parameter
    dirs,     \* file system: the directories that exist
    fs,       \* file system: path -> content of each file that exists
    fs0,      \* the file system when the run started: [dirs, fs]
    ret,      \* the value the last render_card call returned
    calls,    \* the render_card calls made so far, in order
    exc       \* the exception that ended the run ([type |-> "none"] if none)

vars == <<pc, mode, args, data, fidx, stdin, v, csvfile, rowi, outdir,
          dirs, fs, fs0, ret, calls, exc>>

(***************************************************************************)
(* Bounds of the model.                                                    *)
(***************************************************************************)
MaxRows == 2     \* data rows of a CSV file
MaxCalls == 2    \* render_card calls when the renderer is driven directly

(***************************************************************************)
(* Python values.                                                          *)
(***************************************************************************)
None == <<"None">>      \* not a str: its one element is not a character

fields == <<"company", "name", "gender", "dob", "mobile", "address">>

Fields == {fields[i] : i \in 1..Len(fields)}

\* bool(x) of a str-or-None
Truthy(x) == x # None /\ x # <<>>

\* any([a, b]) with a a str-or-None and b a bool
any(a, b) == Truthy(a) \/ b

WHITESPACE == {" ", "\t"}

RECURSIVE lstrip(_)
lstrip(s) ==
    IF s # <<>> /\ Head(s) \in WHITESPACE THEN lstrip(Tail(s)) ELSE s

RECURSIVE rstrip(_)
rstrip(s) ==
    IF s # <<>> /\ s[Len(s)] \in WHITESPACE
    THEN rstrip(SubSeq(s, 1, Len(s) - 1))
    ELSE s

\* str.strip()
strip(s) == rstrip(lstrip(s))

\* replace with a fault: only the first occurrence is replaced
RECURSIVE replace_first(_, _, _)
replace_first(s, old, new) ==
    IF s = <<>> THEN <<>>
    ELSE IF Head(s) = old THEN <<new>> \o Tail(s)
    ELSE <<Head(s)>> \o replace_first(Tail(s), old, new)

\* str.replace(old, new) for one-character old and new
RECURSIVE replace(_, _, _)
replace(s, old, new) ==
    IF s = <<>> THEN <<>>
    ELSE <<IF Head(s) = old THEN new ELSE Head(s)>> \o replace(Tail(s), old, new)

LowerCase == <<"a", "b", "c", "d", "e", "f", "g", "h", "i", "j", "k", "l", "m",
               "n", "o", "p", "q", "r", "s", "t", "u", "v", "w", "x", "y", "z">>

UpperCase == <<"A", "B", "C", "D", "E", "F", "G", "H", "I", "J", "K", "L", "M",
               "N", "O", "P", "Q", "R", "S", "T", "U", "V", "W", "X", "Y", "Z">>

upper_char(c) ==
    IF \E i \in 1..Len(LowerCase) : LowerCase[i] = c
    THEN UpperCase[CHOOSE i \in 1..Len(LowerCase) : LowerCase[i] = c]
    ELSE c

\* str.upper()
RECURSIVE upper(_)
upper(s) == IF s = <<>> THEN <<>> ELSE <<upper_char(Head(s))>> \o upper(Tail(s))

CardData(company, name, gender, dob, mobile, address) ==
    [company |-> company, name |-> name, gender |-> gender,
     dob |-> dob, mobile |-> mobile, address |-> address]

(***************************************************************************)
(* Layout constants.                                                       *)
(***************************************************************************)
CARD_WIDTH == 1000
CARD_HEIGHT == 600
BG_COLOR == <<245, 245, 245>>
TEXT_COLOR == <<20, 20, 20>>
ACCENT == <<0, 90, 160>>
panel_w == 260
brand_y == 40
y_start == 60
row_gap == 55
x_offset == panel_w + 40

(***************************************************************************)
(* The canvas: the drawing operations applied so far.  Every operation is  *)
(* <<kind, geometry, text, font, colour>>.                                 *)
(***************************************************************************)
\* Image.new("RGB", (CARD_WIDTH, CARD_HEIGHT), BG_COLOR)
Image_new == << <<"new", <<CARD_WIDTH, CARD_HEIGHT>>, <<>>, "RGB", BG_COLOR>> >>

draw_label(card, text, xy) == Append(card, <<"text", xy, text, "FONT_LABEL", ACCENT>>)

draw_value(card, text, xy) == Append(card, <<"text", xy, text, "FONT_VALUE", TEXT_COLOR>>)

\* the list fields of render_card: (label, value) pairs
card_fields(d) ==
    << <<<<"N", "a", "m", "e">>, d["name"]>>,
       <<<<"G", "e", "n", "d", "e", "r">>, d["gender"]>>,
       <<<<"D", ".", "O", ".", "B", ".">>, d["dob"]>>,
       <<<<"M", "o", "b", "i", "l", "e">>, d["mobile"]>>,
       <<<<"A", "d", "d", "r", "e", "s", "s">>, d["address"]>> >>

\* the loop over fields, from its i-th element on, with y its running offset
RECURSIVE draw_rows(_, _, _, _)
draw_rows(card, pairs, i, y) ==
    IF i > Len(pairs) THEN card
    ELSE draw_rows(
            draw_value(draw_label(card, upper(pairs[i][1]), <<x_offset, y>>),
                       pairs[i][2], <<x_offset + 250, y>>),
            pairs, i + 1, y + row_gap)

\* the payload of the QR code
qr_payload(d) == d["company"] \o <<"|">> \o d["name"] \o <<"|">>

\* what render_card draws for d on the canvas c0
draw_card(c0, d) ==
    LET c1 == Append(c0, <<"rectangle", <<0, 0, panel_w, CARD_HEIGHT>>, <<>>, "", ACCENT>>)
        c2 == Append(c1, <<"text", <<40, brand_y>>, upper(d["company"]), "FONT_TITLE", <<0, 0, 0>>>>)
        c3 == draw_rows(c2, card_fields(d), 1, y_start + 120)
        c4 == Append(c3, <<"paste", <<CARD_WIDTH - 250, CARD_HEIGHT - 250, 200, 200>>,
                           qr_payload(d), "qr", <<0, 0, 0>>>>)
    IN  Append(c4, <<"line", <<panel_w, CARD_HEIGHT - 40, CARD_WIDTH - 40, CARD_HEIGHT - 40, 4>>,
                     <<>>, "", ACCENT>>)

\* render_image with a fault: the canvas of the previous card is drawn over
render_image_reused(d) ==
    draw_card(IF ret # None /\ ret \in DOMAIN fs THEN fs[ret] ELSE Image_new, d)

\* the canvas render_card saves for d: a new one, drawn on
render_image(d) == draw_card(Image_new, d)

PNG == <<".", "p", "n", "g">>

\* outdir / f"{data['name'].replace(' ', '_')}.png"
card_path(d, dir) == <<dir, replace(d["name"], " ", "_") \o PNG>>

\* save with a fault: a file that exists is kept and the card goes to a fresh name
save_no_overwrite(files, path, image) ==
    LET p == IF path \in DOMAIN files THEN <<path[1], <<"_">> \o path[2]>> ELSE path
    IN  [q \in DOMAIN files \cup {p} |-> IF q = p THEN image ELSE files[q]]

\* card.save(card_path): the file is created or overwritten
save(files, path, image) ==
    [q \in DOMAIN files \cup {path} |-> IF q = path THEN image ELSE files[q]]

\* render_card(data, outdir)
render_card(d, dir) ==
    /\ dirs' = dirs \cup {dir}
    /\ fs' = save(fs, card_path(d, dir), render_image(d))
    /\ ret' = card_path(d, dir)
    /\ calls' = Append(calls, [data |-> d, outdir |-> dir])

(***************************************************************************)
(* process_csv.  A CSV file is its header (the column names) and its data  *)
(* rows (each the list of its cells).  csv.DictReader hands out one dict   *)
(* per data row: the cell of each column it has, None (restval) for a      *)
(* column of the header the row is too short for; cells beyond the header  *)
(* go under the key None and are never looked up.                          *)
(***************************************************************************)
NoExc == [type |-> "none", msg |-> "", names |-> <<>>]

RowHas(header, f) == \E i \in 1..Len(header) : header[i] = f

\* RowGet with a fault: a DictReader with restval=""
RowGet_restval_empty(header, cells, f) ==
    LET i == CHOOSE j \in 1..Len(header) : header[j] = f
    IN  IF i <= Len(cells) THEN cells[i] ELSE <<>>

\* row[f] for a column f of the header
RowGet(header, cells, f) ==
    LET i == CHOOSE j \in 1..Len(header) : header[j] = f
    IN  IF i <= Len(cells) THEN cells[i] ELSE None

\* what row[f].strip() raises
FieldError(header, cells, f) ==
    IF ~RowHas(header, f) THEN "KeyError"
    ELSE IF RowGet(header, cells, f) = None THEN "AttributeError"
    ELSE "none"

\* the exception building CardData(company=row["company"].strip(), ...) ends
\* with: that of the first keyword argument, in order, whose evaluation raises
clean_error(header, cells) ==
    LET bad == {i \in 1..Len(fields) : FieldError(header, cells, fields[i]) # "none"}
    IN  IF bad = {} THEN NoExc
        ELSE LET i == CHOOSE j \in bad : \A k \in bad : j <= k
             IN  [type |-> FieldError(header, cells, fields[i]),
                  msg |-> "", names |-> <<fields[i]>>]

\* clean with a fault: the name is taken from the row as it is
clean_name_raw(header, cells) ==
    CardData(strip(RowGet(header, cells, "company")),
             RowGet(header, cells, "name"),
             strip(RowGet(header, cells, "gender")),
             strip(RowGet(header, cells, "dob")),
             strip(RowGet(header, cells, "mobile")),
             strip(RowGet(header, cells, "address")))

\* clean: CardData = CardData(company=row["company"].strip(), ...)
clean(header, cells) ==
    CardData(strip(RowGet(header, cells, "company")),
             strip(RowGet(header, cells, "name")),
             strip(RowGet(header, cells, "gender")),
             strip(RowGet(header, cells, "dob")),
             strip(RowGet(header, cells, "mobile")),
             strip(RowGet(header, cells, "address")))

\* with open(path, ...) as f: reader = csv.DictReader(f)
open_csv ==
    /\ pc = "open"
    /\ IF csvfile.exists
       THEN /\ pc' = "reading"
            /\ rowi' = 0
            /\ UNCHANGED exc
       ELSE /\ pc' = "error"
            /\ exc' = [type |-> "FileNotFoundError", msg |-> "", names |-> <<>>]
            /\ UNCHANGED rowi
    /\ UNCHANGED <<mode, args, data, fidx, stdin, v, csvfile, outdir,
                   dirs, fs, fs0, ret, calls>>

\* one iteration of: for row in reader
read_row ==
    /\ pc = "reading"
    /\ rowi < Len(csvfile.rows)
    /\ rowi' = rowi + 1
    /\ LET cells == csvfile.rows[rowi + 1]
           e == clean_error(csvfile.header, cells)
       IN  IF e.type # "none"
           THEN /\ pc' = "error"
                /\ exc' = e
                /\ UNCHANGED <<data, dirs, fs, ret, calls>>
           ELSE /\ data' = clean(csvfile.header, cells)
                /\ render_card(data', outdir)
                /\ UNCHANGED <<pc, exc>>
    /\ UNCHANGED <<mode, args, fidx, stdin, v, csvfile, outdir, fs0>>

\* the reader is exhausted: process_csv returns
end_csv ==
    /\ pc = "reading"
    /\ rowi = Len(csvfile.rows)
    /\ pc' = "done"
    /\ UNCHANGED <<mode, args, data, fidx, stdin, v, csvfile, rowi, outdir,
                   dirs, fs, fs0, ret, calls, exc>>

(***************************************************************************)
(* cli.                                                                    *)
(***************************************************************************)
DefaultArgs ==
    [input |-> None, out |-> "output", single |-> FALSE,
     company |-> None, name |-> None, gender |-> None,
     dob |-> None, mobile |-> None, address |-> None]

\* InteractiveSelected with a fault: --input is tested against None
InteractiveSelected_is_none(a) == a.input = None /\ ~a.single

\* if not any([args.input, args.single])
InteractiveSelected(a) == ~any(a.input, a.single)

\* SingleSelected with a fault: --single yields to --input
SingleSelected_unless_input(a) == a.single /\ ~Truthy(a.input)

\* if args.single
SingleSelected(a) == a.single

\* if args.input
CsvSelected(a) == Truthy(a.input)

\* missing with a fault: an empty value counts as missing
missing_falsy(a) == SelectSeq(fields, LAMBDA r : ~Truthy(a[r]))

\* missing = [r for r in required if getattr(args, r) is None]
missing(a) == SelectSeq(fields, LAMBDA r : a[r] = None)

\* prompt_value with a fault: the line is not stripped
prompt_value_raw(l) == l

\* v = input(...).strip()
prompt_value(l) == strip(l)

ProvideMsg == "Provide --input csv or --single mode."

\* the exit status of the process: raise SystemExit(<a str>) and an uncaught
\* exception both end it with status 1
ExitStatus == IF exc.type = "none" THEN 0 ELSE 1

EmptyCardData == CardData(<<>>, <<>>, <<>>, <<>>, <<>>, <<>>)

\* the body of cli after args = ap.parse_args(), up to its first input() call,
\* its return or the exception that ends it
cli_body(a) ==
    IF InteractiveSelected(a) THEN
        /\ mode' = "interactive"
        /\ pc' = "prompt"
        /\ fidx' = 1
        /\ data' = EmptyCardData
        /\ UNCHANGED <<outdir, dirs, fs, ret, calls, exc>>
    ELSE IF SingleSelected(a) THEN
        /\ mode' = "single"
        /\ IF missing(a) # <<>>
           THEN /\ pc' = "exit"
                /\ exc' = [type |-> "SystemExit", msg |-> "Missing fields: ",
                           names |-> missing(a)]
                /\ UNCHANGED <<data, dirs, fs, ret, calls>>
           ELSE /\ data' = CardData(a.company, a.name, a.gender,
                                    a.dob, a.mobile, a.address)
                /\ render_card(data', a.out)
                /\ pc' = "done"
                /\ UNCHANGED exc
        /\ UNCHANGED <<fidx, outdir>>
    ELSE IF CsvSelected(a) THEN
        /\ mode' = "csv"
        /\ pc' = "open"
        /\ outdir' = a.out
        /\ UNCHANGED <<data, fidx, dirs, fs, ret, calls, exc>>
    ELSE
        /\ mode' = "fallthrough"
        /\ pc' = "exit"
        /\ exc' = [type |-> "SystemExit", msg |-> ProvideMsg, names |-> <<>>]
        /\ UNCHANGED <<data, fidx, outdir, dirs, fs, ret, calls>>

\* one pass of the body of: while True, for the field fields[fidx]
prompt_body(l) ==
    /\ stdin' = l
    /\ v' = prompt_value(l)
    /\ IF v' # <<>>
       THEN /\ data' = [data EXCEPT ![fields[fidx]] = v']
            /\ IF fidx < Len(fields)
               THEN /\ fidx' = fidx + 1
                    /\ UNCHANGED <<pc, dirs, fs, ret, calls>>
               ELSE /\ render_card(data', args.out)
                    /\ pc' = "done"
                    /\ UNCHANGED fidx
       ELSE UNCHANGED <<pc, data, fidx, dirs, fs, ret, calls>>

(***************************************************************************)
(* The inputs.                                                             *)
(***************************************************************************)
OutDirs == {"output", "cards"}

CSV_PATH == <<"f", ".", "c", "s", "v">>

\* --input: not given, given empty, given a path
InputValues == {None, <<>>, CSV_PATH}

\* what the six field flags hold when they are given: values that need
\* nothing done to them, and values with an empty and an untrimmed one
FlagProfiles ==
    { CardData(<<"a">>, <<"a", " ", "b">>, <<"x">>, <<"x">>, <<"x">>, <<"x">>),
      CardData(<<"a">>, <<" ", "a">>, <<>>, <<"x">>, <<"x", " ">>, <<"x">>) }

ArgsSpace ==
    { [input |-> i, out |-> o, single |-> s,
       company |-> IF "company" \in S THEN p.company ELSE None,
       name |-> IF "name" \in S THEN p.name ELSE None,
       gender |-> IF "gender" \in S THEN p.gender ELSE None,
       dob |-> IF "dob" \in S THEN p.dob ELSE None,
       mobile |-> IF "mobile" \in S THEN p.mobile ELSE None,
       address |-> IF "address" \in S THEN p.address ELSE None] :
      i \in InputValues, o \in OutDirs, s \in BOOLEAN,
      S \in SUBSET Fields, p \in FlagProfiles }

\* the lines typed at a prompt
Responses == { <<>>, <<" ", "\t">>, <<" ", "a", " ", "b", "\t">> }

\* a card left by an earlier run, and a file no record of the inputs names
OldRecord ==
    CardData(<<"o", "l", "d">>, <<"a", " ", "b">>, <<"x">>, <<"x">>, <<"x">>, <<"x">>)

OldFiles ==
    [q \in { <<"output", <<"a", "_", "b">> \o PNG>>, <<"output", <<"z">> \o PNG>> } |->
        draw_card(Image_new, OldRecord)]

\* the file system a run may start in
FsStates == { [dirs |-> {}, fs |-> <<>>], [dirs |-> {"output"}, fs |-> OldFiles] }

\* the records render_card is driven with
RenderRecords ==
    { CardData(c, n, <<"x">>, <<"x">>, <<"x">>, a) :
        c \in { <<"a">>, <<"b">> },
        n \in { <<"a", " ", "b">>, <<"a", "_", "b">>, <<" ", "a", " ">>, <<>> },
        a \in { <<"x">>, <<"y", " ">> } }

NoFile == [exists |-> FALSE, header |-> <<>>, rows |-> <<>>]

\* headers: the six columns; the six in another order after a seventh; one
\* of the six absent
Headers ==
    { fields,
      <<"id", "name", "company", "address", "mobile", "dob", "gender">>,
      <<"company", "name", "gender", "dob", "address">>,
      <<"name", "gender", "dob", "mobile", "address">> }

\* the values of a data row's columns
CsvRecords ==
    { CardData(c, n, <<" ", "x">>, <<"x", " ">>, <<"\t", "x">>, <<"x">>) :
        c \in { <<"a">>, <<" ">> },
        n \in { <<"a", " ", "b">>, <<"a", "_", "b">>, <<" ", "a", " ", "b", " ">> } }

\* a data row: the values of its columns, and how many cells it has fewer
\* (cut > 0) or more (cut < 0) than the header has columns
RowSpecs ==
    { [vals |-> r, cut |-> 0] : r \in CsvRecords }
    \cup { [vals |-> CardData(<<"b">>, <<"c">>, <<"x">>, <<"x">>, <<"x">>, <<"x">>), cut |-> c] :
            c \in {2, -1} }

\* the cells of the row rs under the header
RowCells(header, rs) ==
    [i \in 1..(Len(header) - rs.cut) |->
        IF i <= Len(header) /\ header[i] \in Fields THEN rs.vals[header[i]] ELSE <<"7">>]

RECURSIVE SeqsUpTo(_, _)
SeqsUpTo(S, n) ==
    IF n = 0 THEN { <<>> }
    ELSE LET shorter == SeqsUpTo(S, n - 1)
         IN  shorter \cup { Append(q, x) : q \in shorter, x \in S }

CsvFiles ==
    { [exists |-> TRUE, header |-> h,
       rows |-> [i \in 1..Len(rr) |-> RowCells(h, rr[i])]] :
      h \in Headers, rr \in SeqsUpTo(RowSpecs, MaxRows) }

\* the CSV files a run of cli may find at args.input
CliCsvFiles ==
    { NoFile } \cup
    { f \in CsvFiles :
        /\ Len(f.rows) = 2
        /\ f.header = fields
        /\ Len(f.rows[1]) = Len(fields)
        /\ f.rows[1][1] = <<"a">> /\ f.rows[1][2] = <<"a", " ", "b">>
        /\ \/ f.rows[2][1] = <<" ">> /\ f.rows[2][2] = <<"a", "_", "b">>
           \/ Len(f.rows[2]) < Len(fields) }

(***************************************************************************)
(* The actions.                                                            *)
(***************************************************************************)
\* cli() from args = ap.parse_args() on
cli ==
    /\ pc = "start"
    /\ \E a \in ArgsSpace :
        /\ args' = a
        /\ cli_body(a)
    /\ UNCHANGED <<stdin, v, csvfile, rowi, fs0>>

\* v = input(f"Enter {f.upper()}: ").strip() and what follows it
input_prompt ==
    /\ pc = "prompt"
    /\ \E l \in Responses : prompt_body(l)
    /\ UNCHANGED <<mode, args, csvfile, rowi, outdir, fs0, exc>>

\* render_card called by a program that imports the module
call_render_card ==
    /\ pc = "lib"
    /\ Len(calls) < MaxCalls
    /\ \E d \in RenderRecords, dir \in OutDirs : render_card(d, dir)
    /\ UNCHANGED <<pc, mode, args, data, fidx, stdin, v, csvfile, rowi, outdir, fs0, exc>>

InitState(start, files, file, dir) ==
    /\ pc = start
    /\ mode = "none"
    /\ args = DefaultArgs
    /\ data = EmptyCardData
    /\ fidx = 0
    /\ stdin = <<>>
    /\ v = <<>>
    /\ csvfile = file
    /\ rowi = 0
    /\ outdir = dir
    /\ dirs = files.dirs
    /\ fs = files.fs
    /\ fs0 = files
    /\ ret = None
    /\ calls = <<>>
    /\ exc = NoExc

\* python main.py ...
Init == \E files \in FsStates, file \in CliCsvFiles : InitState("start", files, file, "output")

Next == cli \/ input_prompt \/ open_csv \/ read_row \/ end_csv

Spec == Init /\ [][Next]_vars

\* process_csv(path, outdir) called on a CSV file
InitCsv ==
    \E files \in FsStates, file \in CsvFiles \cup {NoFile}, dir \in OutDirs :
        InitState("open", files, file, dir)

NextCsv == open_csv \/ read_row \/ end_csv

SpecCsv == InitCsv /\ [][NextCsv]_vars

\* render_card(data, outdir) called on records
InitRender == \E files \in FsStates : InitState("lib", files, NoFile, "output")

NextRender == call_render_card

SpecRender == InitRender /\ [][NextRender]_vars

(***************************************************************************)
(* What the properties below are stated with.                              *)
(***************************************************************************)
\* s is non-empty and has no leading and no trailing whitespace
Trimmed(s) == s # <<>> /\ s[1] \notin WHITESPACE /\ s[Len(s)] \notin WHITESPACE

\* the file name of a card: the name with every space replaced by an
\* underscore, followed by .png
IsCardFile(fname, name) ==
    /\ Len(fname) = Len(name) + 4
    /\ \A i \in 1..Len(name) : fname[i] = IF name[i] = " " THEN "_" ELSE name[i]
    /\ SubSeq(fname, Len(name) + 1, Len(name) + 4) = <<".", "p", "n", "g">>

\* the files of directory dir in the files fl
FilesIn(fl, dir) == {q \in DOMAIN fl : q[1] = dir}

\* column f has a cell in data row i of the CSV file
HasCell(i, f) ==
    \E j \in 1..Len(csvfile.rows[i]) : j <= Len(csvfile.header) /\ csvfile.header[j] = f

\* the cell of column f in data row i
Cell(i, f) ==
    csvfile.rows[i][CHOOSE j \in 1..Len(csvfile.header) : csvfile.header[j] = f]

\* data row i lacks a required column
RowLacks(i) == \E f \in Fields : ~HasCell(i, f)

\* the record of data row i: its six columns, trimmed
RowRecord(i) == [f \in Fields |-> strip(Cell(i, f))]

\* the path of the card of data row i
RowPath(i) == <<outdir, replace(strip(Cell(i, "name")), " ", "_") \o PNG>>

\* the card drawn for record d on a canvas of its own: the canvas, the side
\* panel, the title, five label/value pairs, the QR code and the divider,
\* with d's values as the only texts
IsFreshCardOf(card, d) ==
    /\ Len(card) = 15
    /\ card[1][1] = "new"
    /\ \A j \in 2..15 : card[j][1] # "new"
    /\ card[3][3] = upper(d["company"])
    /\ <<card[5][3], card[7][3], card[9][3], card[11][3], card[13][3]>>
         = <<d["name"], d["gender"], d["dob"], d["mobile"], d["address"]>>

(***************************************************************************)
(* C1.  As claimed: a run of cli is in CSV mode whenever a CSV path is     *)
(* supplied, in single mode whenever --single is given, and in interactive *)
(* mode when neither is given.                                             *)
(***************************************************************************)
C1_ModeAsClaimed ==
    mode # "none" =>
        /\ mode \in {"csv", "single", "interactive"}
        /\ args.input \notin {None, <<>>} => mode = "csv"
        /\ args.single => mode = "single"
        /\ (args.input \in {None, <<>>} /\ ~args.single) => mode = "interactive"

(***************************************************************************)
(* C1, amended.  One run of cli selects exactly one mode and keeps it:     *)
(* single mode whenever --single is given (with or without --input); CSV   *)
(* mode, process_csv invoked on args.out, whenever --single is not given   *)
(* and --input is a non-empty path; interactive mode whenever --single is  *)
(* not given and --input is absent or the empty string.  The field flags   *)
(* have no part in the selection.                                          *)
(***************************************************************************)
C1_ModeSelected ==
    /\ [](mode # "none" =>
            /\ mode \in {"csv", "single", "interactive"}
            /\ mode = "single" <=> args.single
            /\ mode = "csv" <=> (~args.single /\ args.input \notin {None, <<>>})
            /\ mode = "interactive" <=> (~args.single /\ args.input \in {None, <<>>})
            /\ mode = "csv" => (pc \in {"open", "reading", "done", "error"} /\ outdir = args.out)
            /\ mode = "single" => pc \in {"done", "exit"}
            /\ mode = "interactive" => pc \in {"prompt", "done"})
    /\ [][mode # "none" => (mode' = mode /\ args' = args)]_vars

\* --single and --input both given: the run is in single mode
C1_Witness ==
    /\ mode = "single"
    /\ args.single
    /\ args.input = CSV_PATH
    /\ pc = "done"

(***************************************************************************)
(* C2.  In single mode, if any of the six fields is not supplied, the run  *)
(* ends with a non-zero exit status and a message that lists exactly the   *)
(* fields not supplied (in the order of the six), and render_card is not   *)
(* called: no directory is created, no file is written.                    *)
(***************************************************************************)
C2_SingleMissing ==
    (mode = "single" /\ \E f \in Fields : args[f] = None) =>
        /\ pc = "exit"
        /\ exc.type = "SystemExit"
        /\ ExitStatus # 0
        /\ exc.msg = "Missing fields: "
        /\ exc.names = SelectSeq(fields, LAMBDA f : args[f] = None)
        /\ {exc.names[i] : i \in 1..Len(exc.names)} = {f \in Fields : args[f] = None}
        /\ calls = <<>>
        /\ dirs = fs0.dirs
        /\ fs = fs0.fs

\* single mode, two fields not supplied, one supplied with an empty value
C2_Witness ==
    /\ mode = "single"
    /\ pc = "exit"
    /\ Len(exc.names) = 2
    /\ args.gender = <<>>

(***************************************************************************)
(* C3.  As claimed: every record that reaches render_card, in any of the   *)
(* three modes, has all six fields non-empty and free of leading and       *)
(* trailing whitespace.                                                    *)
(***************************************************************************)
C3_RecordsClean ==
    \A i \in 1..Len(calls) : \A f \in Fields : Trimmed(calls[i].data[f])

C5_MissingColumnAborts ==
    \A k \in 1..Len(csvfile.rows) :
        (RowLacks(k) /\ \A i \in 1..(k - 1) : ~RowLacks(i)) =>
            /\ pc # "done"
            /\ rowi <= k
            /\ Len(calls) <= k - 1
            /\ rowi = k =>
                /\ pc = "error"
                /\ ExitStatus # 0
                /\ Len(calls) = k - 1
                /\ LET f == fields[CHOOSE n \in 1..Len(fields) :
                                /\ ~HasCell(k, fields[n])
                                /\ \A m \in 1..(n - 1) : HasCell(k, fields[m])]
                   IN  /\ exc.names = <<f>>
                       /\ exc.type = IF \E j \in 1..Len(csvfile.header) : csvfile.header[j] = f
                                     THEN "AttributeError" ELSE "KeyError"
                /\ \A i \in 1..(k - 1) :
                      /\ calls[i].data = RowRecord(i)
                      /\ (\A j \in (i + 1)..(k - 1) : RowPath(j) # RowPath(i))
                            => fs[RowPath(i)] = render_image(RowRecord(i))
                /\ \A q \in DOMAIN fs :
                      (\A i \in 1..(k - 1) : RowPath(i) # q)
                          => (q \in DOMAIN fs0.fs /\ fs[q] = fs0.fs[q])

\* the second row lacks a column: the first row's card is on disk, and the
\* run has ended with the error at the second
C5_Witness ==
    /\ pc = "error"
    /\ exc.type \in {"KeyError", "AttributeError"}
    /\ rowi = 2
    /\ Len(calls) = 1
    /\ RowPath(1) \in DOMAIN fs

(***************************************************************************)
(* C6.  In interactive mode the six fields are prompted in the order       *)
(* company, name, gender, dob, mobile, address; a response that is empty   *)
(* or whitespace-only leaves the prompt where it is, a response that is    *)
(* non-empty after trimming is stored trimmed and moves to the next field; *)
(* render_card is called exactly once, after the sixth field, with all six *)
(* fields non-empty.                                                       *)
(***************************************************************************)
C6_Interactive ==
    /\ [](mode = "interactive" =>
            /\ fidx \in 1..Len(fields)
            /\ \A n \in 1..Len(fields) :
                  IF n < fidx \/ pc = "done"
                  THEN Trimmed(data[fields[n]])
                  ELSE data[fields[n]] = <<>>
            /\ Len(calls) = IF pc = "done" THEN 1 ELSE 0
            /\ pc = "done" => calls[1] = [data |-> data, outdir |-> args.out])
    /\ [][pc = "prompt" =>
            IF strip(stdin') = <<>>
            THEN pc' = "prompt" /\ fidx' = fidx /\ data' = data /\ calls' = calls
            ELSE /\ data' = [data EXCEPT ![fields[fidx]] = strip(stdin')]
                 /\ IF fidx < Len(fields)
                    THEN pc' = "prompt" /\ fidx' = fidx + 1 /\ calls' = calls
                    ELSE pc' = "done" /\ Len(calls') = 1]_vars

\* the sixth field has been answered and the card rendered
C6_Witness ==
    /\ mode = "interactive"
    /\ pc = "done"
    /\ Len(calls) = 1
    /\ stdin # data["address"]
    /\ \A f \in Fields : Trimmed(data[f])

C8_RenderIdempotent ==
    [][(/\ calls # <<>>
        /\ Len(calls') = Len(calls) + 1
        /\ calls'[Len(calls')] = calls[Len(calls)])
            => (fs' = fs /\ dirs' = dirs /\ ret' = ret)]_vars

\* the same record rendered twice to the same directory
C8_Witness ==
    /\ Len(calls) = 2
    /\ calls[1] = calls[2]
    /\ ret \in DOMAIN fs

(***************************************************************************)
(* C9.  In CSV mode render_card is invoked exactly once per data row, in   *)
(* file order; the card of row i is on disk before row i+1 is read; and    *)
(* the card of each row is drawn on a canvas of its own, with nothing of   *)
(* an earlier row on it.                                                   *)
(***************************************************************************)
C9_CsvSequential ==
    /\ [](pc \in {"reading", "done"} =>
            /\ Len(calls) = rowi
            /\ pc = "done" => rowi = Len(csvfile.rows)
            /\ \A i \in 1..rowi :
                  /\ calls[i] = [data |-> RowRecord(i), outdir |-> outdir]
                  /\ RowPath(i) \in DOMAIN fs
            /\ rowi >= 1 => (ret = RowPath(rowi) /\ IsFreshCardOf(fs[ret], RowRecord(rowi))))
    /\ [][(pc = "reading" /\ rowi' # rowi) =>
            /\ rowi' = rowi + 1
            /\ Len(calls) = rowi
            /\ Len(calls') <= rowi']_vars

\* two rows with different values rendered one after the other
C9_Witness ==
    /\ pc = "done"
    /\ rowi = 2
    /\ Len(calls) = 2
    /\ calls[1].data # calls[2].data
    /\ RowPath(1) # RowPath(2)

(***************************************************************************)
(* C10.  The final statement of cli, the exit with 'Provide --input csv or *)
(* --single mode.', is never reached, whatever --input (the empty string   *)
(* included) and --single are.                                             *)
(***************************************************************************)
C10_FallThroughUnreachable ==
    /\ mode # "fallthrough"
    /\ exc.msg # ProvideMsg
    /\ mode = "none" <=> pc = "start"

\* --input given as the empty string, without --single: interactive mode
C10_Witness ==
    /\ args.input = <<>>
    /\ ~args.single
    /\ mode = "interactive"

====
